---- MODULE Spec2Model ----
(***************************************************************************)
(* Model of the pro_sante load pipeline: staging upsert, dimension         *)
(* conformance, fact resolution, run/volume recording and the orchestrator *)
(* (src/med_demo/app).  The relational store is modelled as sets of        *)
(* records; one action is one call of a loader function, with the          *)
(* transaction it opens committed or rolled back as a whole.               *)
(***************************************************************************)
EXTENDS Integers, Sequences, FiniteSets, TLC

VARIABLES
    stg,            \* "pro_sante".stg_pro_sante_raw
    annees,         \* "pro_sante".annees
    professions,    \* "pro_sante".professions
    regions,        \* "pro_sante".regions
    genres,         \* "pro_sante".genres
    tranches_age,   \* "pro_sante".tranches_age
    departements,   \* "pro_sante".departements
    faits,          \* "pro_sante".table_faits_pro_v2
    volumes,        \* ops.volumes
    run_log,        \* ops.run_log, in insertion order
    pc,             \* position of the orchestrator's main()
    args,           \* parsed command line of the orchestrator
    calls,          \* invocations of each step's main() in the current run
    last,           \* the last loader call: operation, arguments, outcome
    pre,            \* the staging table as it was before that call
    loaded          \* natural keys committed to staging so far

vars == <<stg, annees, professions, regions, genres, tranches_age, departements, faits,
          volumes, run_log, pc, args, calls, last, pre, loaded>>

----------------------------------------------------------------------------
(* Values *)

\* SQL NULL / pandas None in a text column
NULL == "<null>"

\* populate_dimensions(None) / load_facts(None): no year filter
NoYear == 0

Years == {2021, 2022}

\* One row of COLS.  The three vision attributes are carried separately.
Row(y, prof, reg, lreg, dep, ldep, age, lage, sexe, eff, dens, vis) ==
    [annee |-> y, profession_sante |-> prof, region |-> reg, libelle_region |-> lreg,
     departement |-> dep, libelle_departement |-> ldep,
     classe_age |-> age, libelle_classe_age |-> lage, libelle_sexe |-> sexe,
     effectif |-> eff, densite |-> dens,
     vision_generale_all |-> vis, vision_generale_prescriptions |-> vis,
     vision_profession_territoire |-> vis]

\* The natural key of staging (the ON CONFLICT target / PK)
Key(r) == <<r.annee, r.region, r.departement, r.profession_sante, r.classe_age, r.libelle_sexe>>

KeysOf(t) == {Key(r) : r \in t}

\* The key columns are NOT NULL (primary key of the staging table)
StagingKeyNotNull(r) ==
    /\ r.region # NULL /\ r.departement # NULL /\ r.profession_sante # NULL
    /\ r.classe_age # NULL /\ r.libelle_sexe # NULL

SeqToSet(s) == {s[i] : i \in 1..Len(s)}

----------------------------------------------------------------------------
(* Rows the extractor can deliver *)

rOcc    == Row(2022, "Medecins", "76", "Occitanie", "31", "Haute-Garonne",
               "30-39", "30-39 ans", "hommes", 120, 5, "v1")
\* same natural key as rOcc, re-published with drifted labels and figures
rOccBis == Row(2022, "Medecins", "76", "Occitanie", "31", "Haute Garonne",
               "30-39", "30 a 39 ans", "hommes", 130, 6, "v2")
rOcc21  == Row(2021, "Infirmiers", "76", "Occitanie", "31", "Haute-Garonne",
               "30-39", "30-39 ans", "hommes", 110, 4, "v1")
\* the 2021 vintage names the region, the department and the age band differently
rDrift21 == Row(2021, "Medecins", "76", "Midi-Pyrenees", "31", "Haute Garonne",
               "30-39", "30 a 39 ans", "hommes", 100, 4, "v1")
rCorse  == Row(2022, "Medecins", "94", "Corse", "2A", "Corse-du-Sud",
               "30-39", "30-39 ans", "femmes", 20, 3, "v1")
\* the departement column is missing from the extract
rNoDep  == Row(2022, "Medecins", "76", "Occitanie", NULL, "Haute-Garonne",
               "30-39", "30-39 ans", "hommes", 120, 5, "v1")

\* a department code that is neither numeric nor one of the two Corsican codes
rZZ     == Row(2022, "Medecins", "76", "Occitanie", "ZZ", "Inconnu",
               "30-39", "30-39 ans", "femmes", 7, 1, "v1")
\* a numeric department code equal to the id reserved for 2B
r102    == Row(2022, "Medecins", "76", "Occitanie", "102", "Cent-deux",
               "30-39", "30-39 ans", "femmes", 9, 1, "v1")
\* aggregate rows, one per sentinel of the filter
rReg99     == Row(2022, "Medecins", "99", "Non renseigne", "31", "Haute-Garonne",
                  "30-39", "30-39 ans", "hommes", 50, 2, "v1")
rDep999    == Row(2022, "Medecins", "76", "Occitanie", "999", "Non renseigne",
                  "30-39", "30-39 ans", "hommes", 60, 2, "v1")
rTousSexes == Row(2022, "Medecins", "76", "Occitanie", "31", "Haute-Garonne",
                  "30-39", "30-39 ans", "tout sexe", 70, 2, "v1")
rToutAge   == Row(2022, "Medecins", "76", "Occitanie", "31", "Haute-Garonne",
                  "tout_age", "Tout age", "hommes", 80, 2, "v1")

StgPool == {rOcc, rOccBis, rOcc21, rCorse, rNoDep}

\* the extracts loaded into staging between two conformance runs
WhBatches == {<<rOcc, rCorse, rReg99, rDep999, rTousSexes, rToutAge>>,
              <<rOccBis, r102>>, <<rZZ>>, <<rDrift21>>}

\* longest batch handed to one upsert
MaxBatch == 2

Batches(pool) == UNION {[1..n -> pool] : n \in 0..MaxBatch}

----------------------------------------------------------------------------
(* Staging Store: staging_loader.upsert_to_staging *)

\* rows of tmp_stg selected by WHERE annee = %s, by position
SelectedIdx(df, year) == {i \in 1..Len(df) : df[i].annee = year}

\* ON CONFLICT DO UPDATE cannot affect a row a second time: two proposed rows
\* with the same conflict key abort the statement
ProposedTwice(df, idx) == \E i, j \in idx : i # j /\ Key(df[i]) = Key(df[j])

\* (mutant) the conflicting row is replaced by the proposed one, labels included
StgOnConflictReplace(old, new) == new

\* (mutant) the conflicting row accumulates the new headcount instead of taking it
StgOnConflictAccumulate(old, new) ==
    [old EXCEPT !.effectif = old.effectif + new.effectif, !.densite = new.densite]

\* DO UPDATE SET effectif = EXCLUDED.effectif, densite = EXCLUDED.densite
StgOnConflict(old, new) == [old EXCEPT !.effectif = new.effectif, !.densite = new.densite]

\* (mutant) the selected rows are appended, the conflict target is not consulted
StgAppendRows(t, df, idx) == t \cup {df[i] : i \in idx}

\* INSERT .. SELECT .. FROM tmp_stg WHERE annee = year ON CONFLICT (key) DO UPDATE
StgUpsertRows(t, df, idx) ==
    LET prop == {df[i] : i \in idx}
        hit(r) == {n \in prop : Key(n) = Key(r)}
    IN  {IF hit(r) = {} THEN r ELSE StgOnConflict(r, CHOOSE n \in hit(r) : TRUE) : r \in t}
        \cup {n \in prop : Key(n) \notin KeysOf(t)}

StgFaults == {"none", "create", "copy", "upsert"}

\* (mutant) every statement commits on its own: a failing upsert keeps the
\* selected rows it had inserted before the failure
UpsertToStagingAutocommit(t, df, year, fault) ==
    LET idx == SelectedIdx(df, year)
        bad == \/ fault # "none"
               \/ \E i \in 1..Len(df) : ~StagingKeyNotNull(df[i])
               \/ ProposedTwice(df, idx)
    IN  IF Len(df) = 0 THEN [ok |-> TRUE, err |-> "", table |-> t, applied |-> {}]
        ELSE IF bad
        THEN [ok |-> FALSE, err |-> "failed",
              table |-> t \cup {df[i] : i \in {j \in idx : Key(df[j]) \notin KeysOf(t)}},
              applied |-> {}]
        ELSE [ok |-> TRUE, err |-> "", table |-> StgUpsertRows(t, df, idx),
              applied |-> {Key(df[i]) : i \in idx}]

\* upsert_to_staging(df, year): [ok, table, applied]; any failure inside the
\* connection block rolls the transaction back
UpsertToStagingResult(t, df, year, fault) ==
    LET idx == SelectedIdx(df, year)
        err == IF Len(df) = 0 THEN ""
               ELSE IF fault \in {"create", "copy"} THEN fault
               \* tmp_stg is LIKE the staging table: COPY refuses a NULL key column
               ELSE IF \E i \in 1..Len(df) : ~StagingKeyNotNull(df[i]) THEN "not_null_violation"
               ELSE IF fault = "upsert" THEN fault
               ELSE IF ProposedTwice(df, idx) THEN "cardinality_violation"
               ELSE ""
    IN  IF Len(df) = 0 \/ err # ""
        THEN [ok |-> err = "", err |-> err, table |-> t, applied |-> {}]
        ELSE [ok |-> TRUE, err |-> "", table |-> StgUpsertRows(t, df, idx),
              applied |-> {Key(df[i]) : i \in idx}]

Snapshot == [stg |-> stg, annees |-> annees, professions |-> professions,
             regions |-> regions, genres |-> genres, tranches_age |-> tranches_age,
             departements |-> departements, faits |-> faits]

\* the record of a loader call
Called(op, year, ok) == [op |-> op, year |-> year, ok |-> ok]

UpsertToStaging(df, year, fault) ==
    \E res \in {UpsertToStagingResult(stg, df, year, fault)} :
    /\ stg' = res.table
    /\ loaded' = loaded \cup res.applied
    /\ last' = Called("upsert_to_staging", year, res.ok)
    /\ pre' = stg
    /\ UNCHANGED <<annees, professions, regions, genres, tranches_age, departements,
                   faits, volumes, run_log, pc, args, calls>>

----------------------------------------------------------------------------
(* Drop-folder watcher: watch_parquet.upsert_dataframe *)

\* update_cols = every column outside PK
WatchOnConflict(old, new) == new

WatchUpsertRows(t, df) ==
    LET prop == SeqToSet(df)
        hit(r) == {n \in prop : Key(n) = Key(r)}
    IN  {IF hit(r) = {} THEN r ELSE WatchOnConflict(r, CHOOSE n \in hit(r) : TRUE) : r \in t}
        \cup {n \in prop : Key(n) \notin KeysOf(t)}

UpsertDataframeResult(t, df) ==
    LET idx == 1..Len(df)
        err == IF Len(df) = 0 THEN ""
               ELSE IF \E i \in idx : ~StagingKeyNotNull(df[i]) THEN "not_null_violation"
               ELSE IF ProposedTwice(df, idx) THEN "cardinality_violation"
               ELSE ""
    IN  IF Len(df) = 0 \/ err # ""
        THEN [ok |-> err = "", err |-> err, table |-> t, applied |-> {}]
        ELSE [ok |-> TRUE, err |-> "", table |-> WatchUpsertRows(t, df),
              applied |-> {Key(df[i]) : i \in idx}]

UpsertDataframe(df) ==
    \E res \in {UpsertDataframeResult(stg, df)} :
    /\ stg' = res.table
    /\ loaded' = loaded \cup res.applied
    /\ last' = Called("upsert_dataframe", NoYear, res.ok)
    /\ pre' = stg
    /\ UNCHANGED <<annees, professions, regions, genres, tranches_age, departements,
                   faits, volumes, run_log, pc, args, calls>>

----------------------------------------------------------------------------
(* Department codes.  A code is text; Spell gives its characters, on which  *)
(* the regular expression and the integer cast of the SQL are computed.     *)

Digits == {"0", "1", "2", "3", "4", "5", "6", "7", "8", "9"}

DigitVal(c) ==
    CASE c = "0" -> 0 [] c = "1" -> 1 [] c = "2" -> 2 [] c = "3" -> 3 [] c = "4" -> 4
      [] c = "5" -> 5 [] c = "6" -> 6 [] c = "7" -> 7 [] c = "8" -> 8 [] c = "9" -> 9

Spell(code) ==
    CASE code = ""    -> <<>>
      [] code = "31"  -> <<"3", "1">>
      [] code = "031" -> <<"0", "3", "1">>
      [] code = "75"  -> <<"7", "5">>
      [] code = "101" -> <<"1", "0", "1">>
      [] code = "102" -> <<"1", "0", "2">>
      [] code = "999" -> <<"9", "9", "9">>
      [] code = "2A"  -> <<"2", "A">>
      [] code = "2B"  -> <<"2", "B">>
      [] code = "ZZ"  -> <<"Z", "Z">>

DepCodes == {"", "31", "031", "75", "101", "102", "999", "2A", "2B", "ZZ"}

\* departement ~ '^[0-9]+$'
AllDigits(code) ==
    LET cs == Spell(code) IN Len(cs) > 0 /\ \A i \in 1..Len(cs) : cs[i] \in Digits

RECURSIVE DigitsValue(_)
DigitsValue(cs) ==
    IF Len(cs) = 0 THEN 0
    ELSE 10 * DigitsValue(SubSeq(cs, 1, Len(cs) - 1)) + DigitVal(cs[Len(cs)])

\* SQL NULL in an integer column
NullId == -1

\* an integer cast that raises (invalid input syntax for type integer)
CastError == -2

\* text::int on the codes above: digits give their value, anything else raises
IntCast(code) == IF AllDigits(code) THEN DigitsValue(Spell(code)) ELSE CastError

\* dims_loader, CTE n: CASE 2A -> 101, 2B -> 102, digits -> ::int, ELSE NULL
DimDepId(dep) ==
    IF dep = "2A" THEN 101
    ELSE IF dep = "2B" THEN 102
    ELSE IF AllDigits(dep) THEN IntCast(dep)
    ELSE NullId

\* facts_loader, dep_norm: CASE 2A -> 101, 2B -> 102, ELSE NULLIF(departement,'')::int
FactDepNorm(dep) ==
    IF dep = "2A" THEN 101
    ELSE IF dep = "2B" THEN 102
    ELSE IF dep = "" THEN NullId
    ELSE IntCast(dep)

----------------------------------------------------------------------------
(* Dimension Conformer: dims_loader.populate_dimensions *)

\* (mutant) the filter forgets the "all ages" sentinel
DimsFilteredNoAge(t, year) ==
    {r \in t : /\ r.region # "99"
               /\ r.departement # "999"
               /\ r.libelle_sexe \in {"hommes", "femmes"}
               /\ (year # NoYear => r.annee = year)}

\* CTE s of each of the six statements (the same text six times)
DimsFiltered(t, year) ==
    {r \in t : /\ r.region # "99"
               /\ r.departement # "999"
               /\ r.libelle_sexe \in {"hommes", "femmes"}
               /\ r.classe_age # "tout_age"
               /\ (year # NoYear => r.annee = year)}

\* surrogate keys handed out by the store to the new rows of one statement
IdsFor(S, n) ==
    CHOOSE f \in [S -> (n + 1)..(n + Cardinality(S))] : \A a, b \in S : a # b => f[a] # f[b]

\* INSERT INTO annees SELECT DISTINCT annee .. ON CONFLICT (annee) DO NOTHING
UpsertAnnees(tab, s) ==
    LET new == {r.annee : r \in s} \ {a.annee : a \in tab}
        ids == IdsFor(new, Cardinality(tab))
    IN  tab \cup {[id_annee |-> ids[v], annee |-> v] : v \in new}

\* INSERT INTO professions .. ON CONFLICT (profession) DO NOTHING
UpsertProfessions(tab, s) ==
    LET new == {r.profession_sante : r \in s} \ {a.profession : a \in tab}
        ids == IdsFor(new, Cardinality(tab))
    IN  tab \cup {[id_profession |-> ids[v], profession |-> v] : v \in new}

\* INSERT INTO regions .. ON CONFLICT (libelle_region) DO NOTHING
UpsertRegions(tab, s) ==
    LET new == {r.libelle_region : r \in s} \ {a.libelle_region : a \in tab}
        ids == IdsFor(new, Cardinality(tab))
    IN  tab \cup {[id_region |-> ids[v], libelle_region |-> v] : v \in new}

\* INSERT INTO genres .. ON CONFLICT (libelle_sexe) DO NOTHING
UpsertGenres(tab, s) ==
    LET new == {r.libelle_sexe : r \in s} \ {a.libelle_sexe : a \in tab}
        ids == IdsFor(new, Cardinality(tab))
    IN  tab \cup {[id_genre |-> ids[v], libelle_sexe |-> v] : v \in new}

\* SELECT DISTINCT classe_age, libelle_classe_age FROM s
TranchesProposed(s) ==
    {[classe_age |-> r.classe_age, libelle_classe_age |-> r.libelle_classe_age] : r \in s}

\* two proposed rows on one classe_age: the DO UPDATE would touch a row twice
TranchesTwice(s) ==
    \E p, q \in TranchesProposed(s) : p # q /\ p.classe_age = q.classe_age

\* INSERT INTO tranches_age .. ON CONFLICT (classe_age) DO UPDATE SET libelle
UpsertTranches(tab, s) ==
    LET prop == TranchesProposed(s)
        new  == {p.classe_age : p \in prop} \ {a.classe_age : a \in tab}
        ids  == IdsFor(new, Cardinality(tab))
        lab(c) == (CHOOSE p \in prop : p.classe_age = c).libelle_classe_age
    IN  {IF \E p \in prop : p.classe_age = a.classe_age
         THEN [a EXCEPT !.libelle_classe_age = lab(a.classe_age)] ELSE a : a \in tab}
        \cup {[id_tranche |-> ids[c], classe_age |-> c, libelle_classe_age |-> lab(c)] : c \in new}

\* SELECT DISTINCT n.id_departement, n.nom_departement, r.id_region
\* FROM n JOIN regions r ON r.libelle_region = n.libelle_region
\* WHERE n.id_departement IS NOT NULL
DepartementsProposed(s, regs) ==
    {[id_departement |-> DimDepId(r.departement),
      nom_departement |-> r.libelle_departement,
      id_region |-> g.id_region] :
        <<r, g>> \in {x \in s \X regs : /\ x[2].libelle_region = x[1].libelle_region
                                       /\ DimDepId(x[1].departement) # NullId}}

DepartementsTwice(s, regs) ==
    \E p, q \in DepartementsProposed(s, regs) : p # q /\ p.id_departement = q.id_departement

\* (mutant) the proposed departments are inserted without the conflict clause
InsertDepartements(tab, s, regs) == tab \cup DepartementsProposed(s, regs)

\* INSERT INTO departements .. ON CONFLICT (id_departement) DO UPDATE SET nom, id_region
UpsertDepartements(tab, s, regs) ==
    LET prop == DepartementsProposed(s, regs)
    IN  {d \in tab : ~\E p \in prop : p.id_departement = d.id_departement} \cup prop

DimFaults == {"none", "DIM annee", "DIM profession", "DIM region", "DIM genre",
              "DIM tranche_age", "DIM departement"}

\* the six statements, in the order populate_dimensions executes them
DimStatements == <<"DIM annee", "DIM profession", "DIM region", "DIM genre",
                   "DIM tranche_age", "DIM departement">>

\* the position of the statement that raises, given what makes the run fail
FailsAt(fault, s, regs) ==
    LET at(f) == CHOOSE i \in 1..Len(DimStatements) : DimStatements[i] = f
    IN  IF fault \in {"DIM annee", "DIM profession", "DIM region", "DIM genre",
                      "DIM tranche_age"} THEN at(fault)
        ELSE IF TranchesTwice(s) THEN at("DIM tranche_age")
        ELSE at("DIM departement")

\* (mutant) every statement commits on its own: the statements before the
\* failing one keep their effect
PopulateDimensionsAutocommit(db, year, fault) ==
    LET s    == DimsFiltered(db.stg, year)
        regs == UpsertRegions(db.regions, s)
        bad  == \/ fault # "none" \/ TranchesTwice(s) \/ DepartementsTwice(s, regs)
        n    == IF bad THEN FailsAt(fault, s, regs) - 1 ELSE Len(DimStatements)
    IN  [ok |-> ~bad, err |-> IF bad THEN "failed" ELSE "",
         ran |-> SubSeq(DimStatements, 1, IF bad THEN n + 1 ELSE n),
         db |-> [db EXCEPT
                   !.annees = IF n >= 1 THEN UpsertAnnees(db.annees, s) ELSE @,
                   !.professions = IF n >= 2 THEN UpsertProfessions(db.professions, s) ELSE @,
                   !.regions = IF n >= 3 THEN regs ELSE @,
                   !.genres = IF n >= 4 THEN UpsertGenres(db.genres, s) ELSE @,
                   !.tranches_age = IF n >= 5 THEN UpsertTranches(db.tranches_age, s) ELSE @,
                   !.departements = IF n >= 6 THEN UpsertDepartements(db.departements, s, regs)
                                    ELSE @]]

\* populate_dimensions(year) on the tables db: [ok, err, ran, db]; the six statements run
\* in one transaction, committed at the end or rolled back by any failure
PopulateDimensionsResult(db, year, fault) ==
    LET s    == DimsFiltered(db.stg, year)
        regs == UpsertRegions(db.regions, s)
        err  == IF fault \in {"DIM annee", "DIM profession", "DIM region", "DIM genre",
                              "DIM tranche_age"} THEN fault
                ELSE IF TranchesTwice(s) THEN "cardinality_violation"
                ELSE IF fault = "DIM departement" THEN fault
                ELSE IF DepartementsTwice(s, regs) THEN "cardinality_violation"
                ELSE ""
    IN  IF err # ""
        THEN [ok |-> FALSE, err |-> err, db |-> db,
              ran |-> SubSeq(DimStatements, 1, FailsAt(fault, s, regs))]
        ELSE [ok |-> TRUE, err |-> "", ran |-> DimStatements,
              db |-> [db EXCEPT !.annees = UpsertAnnees(db.annees, s),
                                !.professions = UpsertProfessions(db.professions, s),
                                !.regions = regs,
                                !.genres = UpsertGenres(db.genres, s),
                                !.tranches_age = UpsertTranches(db.tranches_age, s),
                                !.departements = UpsertDepartements(db.departements, s, regs)]]

PopulateDimensions(year, fault) ==
    \E res \in {PopulateDimensionsResult(Snapshot, year, fault)} :
    /\ annees' = res.db.annees
    /\ professions' = res.db.professions
    /\ regions' = res.db.regions
    /\ genres' = res.db.genres
    /\ tranches_age' = res.db.tranches_age
    /\ departements' = res.db.departements
    /\ last' = Called("populate_dimensions", year, res.ok)
    /\ pre' = stg
    /\ UNCHANGED <<stg, faits, volumes, run_log, pc, args, calls, loaded>>

----------------------------------------------------------------------------
(* Run/Volume Recorder: ops_logger *)

\* (mutant) the stored bound is overwritten by the given one, NULL included
CoalesceOverwrite(new, old) == new

\* expected_min / expected_max: COALESCE(EXCLUDED.x, ops.volumes.x)
Coalesce(new, old) == IF new # NullId THEN new ELSE old

VolKey(v) == <<v.pipeline, v.entity, v.as_of_date, v.agg_window>>

\* log_volume: INSERT .. ON CONFLICT (pipeline, entity, as_of_date, agg_window) DO UPDATE
LogVolumeResult(vols, pipeline, entity, as_of, volume, emin, emax, window) ==
    LET k   == <<pipeline, entity, as_of, window>>
        hit == {v \in vols : VolKey(v) = k}
        ins == [pipeline |-> pipeline, entity |-> entity, as_of_date |-> as_of,
                agg_window |-> window, volume |-> volume,
                expected_min |-> emin, expected_max |-> emax]
    IN  IF hit = {} THEN vols \cup {ins}
        ELSE (vols \ hit) \cup
             {[v EXCEPT !.volume = volume,
                        !.expected_min = Coalesce(emin, v.expected_min),
                        !.expected_max = Coalesce(emax, v.expected_max)] : v \in hit}

\* one call of log_volume, by any caller
LogVolume(entity, as_of, volume, emin, emax, window) ==
    /\ volumes' = LogVolumeResult(volumes, "pro_sante", entity, as_of, volume, emin, emax, window)
    /\ last' = [op |-> "log_volume", year |-> as_of, ok |-> TRUE, entity |-> entity,
                agg_window |-> window, volume |-> volume, emin |-> emin, emax |-> emax]
    /\ UNCHANGED <<stg, annees, professions, regions, genres, tranches_age, departements,
                   faits, run_log, pc, args, calls, pre, loaded>>

\* (mutant) the run record is written on the success path only
LogRunOnSuccess(log, component, status, message) ==
    IF status = "OK"
    THEN Append(log, [run_id |-> Len(log) + 1, pipeline |-> "pro_sante",
                      component |-> component, status |-> status, message |-> message])
    ELSE log

\* log_run: INSERT INTO ops.run_log with a fresh run_id
LogRunResult(log, component, status, message) ==
    Append(log, [run_id |-> Len(log) + 1, pipeline |-> "pro_sante", component |-> component,
                 status |-> status, message |-> message])

----------------------------------------------------------------------------
(* Fact Resolver: facts_loader.load_facts *)

\* CTE s of load_facts
FactsFiltered(t, year) ==
    {r \in t : /\ r.region # "99"
               /\ r.departement # "999"
               /\ r.libelle_sexe \in {"hommes", "femmes"}
               /\ r.classe_age # "tout_age"
               /\ (year # NoYear => r.annee = year)}

FactKey(f) == <<f.id_annee, f.id_profession, f.id_region, f.id_departement,
                f.id_tranche, f.id_genre>>

\* the five joins that do not involve dep_norm
JoinsOtherDims(db, r) ==
    /\ \E a \in db.annees : a.annee = r.annee
    /\ \E p \in db.professions : p.profession = r.profession_sante
    /\ \E g \in db.regions : g.libelle_region = r.libelle_region
    /\ \E t \in db.tranches_age : t.classe_age = r.classe_age
    /\ \E x \in db.genres : x.libelle_sexe = r.libelle_sexe

\* The ::int of dep_norm is evaluated for the rows that reach the join with
\* departements.  A row that passes the five other joins reaches it whenever
\* departements has a row to compare with; for the others the plan decides
\* (cast_first: the planner evaluates dep_norm before the other joins).
FactsCastFails(db, s, cast_first) ==
    \E r \in s : /\ FactDepNorm(r.departement) = CastError
                 /\ \/ cast_first
                    \/ JoinsOtherDims(db, r) /\ db.departements # {}

\* one joined row of CTE j
Joined(r, a, p, g, d, t, x) ==
    [src |-> r,
     row |-> [id_annee |-> a.id_annee, id_profession |-> p.id_profession,
              id_region |-> g.id_region, id_departement |-> d.id_departement,
              id_tranche |-> t.id_tranche, id_genre |-> x.id_genre,
              effectif |-> r.effectif, densite |-> r.densite]]

\* (mutant) the join with departements is dropped, the normalized code is taken as the id
FactsJoinedNoDept(db, s) ==
    UNION {{Joined(r, a, p, g, [id_departement |-> FactDepNorm(r.departement)], t, x) :
              a \in {y \in db.annees : y.annee = r.annee},
              p \in {y \in db.professions : y.profession = r.profession_sante},
              g \in {y \in db.regions : y.libelle_region = r.libelle_region},
              t \in {y \in db.tranches_age : y.classe_age = r.classe_age},
              x \in {y \in db.genres : y.libelle_sexe = r.libelle_sexe}} : r \in s}

\* CTE j: the staging rows inner-joined to the six dimensions, one element per
\* joined row (src keeps apart two staging rows that resolve to the same keys)
FactsJoined(db, s) ==
    UNION {{Joined(r, a, p, g, d, t, x) :
              a \in {y \in db.annees : y.annee = r.annee},
              p \in {y \in db.professions : y.profession = r.profession_sante},
              g \in {y \in db.regions : y.libelle_region = r.libelle_region},
              d \in {y \in db.departements :
                       /\ FactDepNorm(r.departement) \notin {NullId, CastError}
                       /\ y.id_departement = FactDepNorm(r.departement)},
              t \in {y \in db.tranches_age : y.classe_age = r.classe_age},
              x \in {y \in db.genres : y.libelle_sexe = r.libelle_sexe}} : r \in s}

\* two joined rows on one six-reference key: the DO UPDATE would touch a row twice
FactsTwice(j) == \E p, q \in j : p # q /\ FactKey(p.row) = FactKey(q.row)

\* (mutant) a fact whose six references exist already is left as it is
UpsertFaitsDoNothing(tab, j) ==
    tab \cup {p.row : p \in {q \in j : ~\E f \in tab : FactKey(f) = FactKey(q.row)}}

\* INSERT INTO table_faits_pro_v2 .. ON CONFLICT (six references) DO UPDATE SET effectif, densite
UpsertFaits(tab, j) ==
    LET prop == {p.row : p \in j}
    IN  {f \in tab : ~\E p \in prop : FactKey(p) = FactKey(f)} \cup prop

\* SELECT COUNT(*) FROM table_faits_pro_v2 WHERE id_annee = (SELECT id_annee .. WHERE annee = year)
CountFaits(db, year) ==
    Cardinality({f \in db.faits : \E a \in db.annees : a.annee = year /\ a.id_annee = f.id_annee})

FactFaults == {"none", "FACTS upsert", "count", "log_volume"}

\* load_facts(year): [ok, faits, volumes].  The upsert is one transaction; the
\* count and the volume record follow it, after the commit.
LoadFactsResult(db, vols, year, cast_first, fault) ==
    LET s == FactsFiltered(db.stg, year)
        j == FactsJoined(db, s)
        after == [db EXCEPT !.faits = UpsertFaits(db.faits, j)]
    IN  IF fault = "FACTS upsert"
        THEN [ok |-> FALSE, err |-> fault, faits |-> db.faits, volumes |-> vols]
        ELSE IF FactsCastFails(db, s, cast_first)
        THEN [ok |-> FALSE, err |-> "invalid_text_representation", faits |-> db.faits,
              volumes |-> vols]
        ELSE IF FactsTwice(j)
        THEN [ok |-> FALSE, err |-> "cardinality_violation", faits |-> db.faits,
              volumes |-> vols]
        ELSE IF year = NoYear
        THEN [ok |-> TRUE, err |-> "", faits |-> after.faits, volumes |-> vols]
        ELSE IF fault \in {"count", "log_volume"}
        THEN [ok |-> FALSE, err |-> fault, faits |-> after.faits, volumes |-> vols]
        ELSE [ok |-> TRUE, err |-> "", faits |-> after.faits,
              volumes |-> LogVolumeResult(vols, "pro_sante", "table_faits_pro_v2", year,
                                          CountFaits(after, year), 1, NullId, "Y")]

LoadFacts(year, cast_first, fault) ==
    \E res \in {LoadFactsResult(Snapshot, volumes, year, cast_first, fault)} :
    /\ faits' = res.faits
    /\ volumes' = res.volumes
    /\ last' = Called("load_facts", year, res.ok)
    /\ pre' = stg
    /\ UNCHANGED <<stg, annees, professions, regions, genres, tranches_age, departements,
                   run_log, pc, args, calls, loaded>>

----------------------------------------------------------------------------
(* Staging step: staging_loader.main *)

\* fetch_parquet_df: the (identifier, format) combinations,
\* 1 primary/parquet, 2 primary/csv, 3 legacy/parquet, 4 legacy/csv; avail
\* gives what each of them answers, "ok" or the error the read raises
Combos == 1..4

Outcomes == {"ok", "HTTP 404", "HTTP 500", "timeout"}

\* the prefix of an error line: format and dataset identifier
ComboName(c) ==
    CASE c = 1 -> "PARQUET primary" [] c = 2 -> "CSV primary"
      [] c = 3 -> "PARQUET legacy"  [] c = 4 -> "CSV legacy"

\* the attempts made in the given order, up to the first that answers
FetchInOrder(order, avail, data) ==
    LET hits  == {i \in 1..Len(order) : avail[order[i]] = "ok"}
        n     == IF hits = {} THEN Len(order) ELSE CHOOSE i \in hits : \A j \in hits : i <= j
        fails == IF hits = {} THEN n ELSE n - 1
    IN  [ok |-> hits # {},
         df |-> IF hits = {} THEN <<>> ELSE data,
         from |-> IF hits = {} THEN 0 ELSE order[n],
         tried |-> SubSeq(order, 1, n),
         errors |-> [i \in 1..fails |->
                        [combo |-> ComboName(order[i]), error |-> avail[order[i]]]]]

\* (mutant) both parquet exports are tried before the csv ones
FetchParquetDfByFormat(avail, data) == FetchInOrder(<<1, 3, 2, 4>>, avail, data)

\* for ds in DATASET_IDS: parquet, then csv; RuntimeError with the collected
\* errors when none answered
FetchParquetDf(avail, data) == FetchInOrder(<<1, 2, 3, 4>>, avail, data)

\* one call of fetch_parquet_df on its own
FetchParquet(avail, data) ==
    \E got \in {FetchParquetDf(avail, data)} :
    /\ last' = [op |-> "fetch_parquet_df", year |-> NoYear, ok |-> got.ok, from |-> got.from,
                tried |-> got.tried, errors |-> got.errors, df |-> got.df]
    /\ UNCHANGED <<stg, annees, professions, regions, genres, tranches_age, departements,
                   faits, volumes, run_log, pc, args, calls, pre, loaded>>

\* prepare_dataframe: df[df["annee"] == year]
PrepareDataframe(df, year) == SelectSeq(df, LAMBDA r : r.annee = year)

\* SELECT COUNT(*) FROM stg_pro_sante_raw WHERE annee = y AND <filter>
CountStaging(t, y) ==
    Cardinality({r \in t : /\ r.annee = y
                           /\ r.region # "99"
                           /\ r.departement # "999"
                           /\ r.libelle_sexe \in {"hommes", "femmes"}
                           /\ r.classe_age # "tout_age"})

\* one call of a step: what it is given and where, if anywhere, it is made to fail
StepInput(avail, data, fault, exc, cast_first) ==
    [avail |-> avail, data |-> data, fault |-> fault, exc |-> exc, cast_first |-> cast_first]

\* main(year) of staging_loader: fetch, prepare, upsert, count, log_volume.
\* After the upsert has committed, a failure of the count or of the volume
\* record leaves the staging rows in place.
StagingMainResult(db, vols, y, in) ==
    LET got == FetchParquetDf(in.avail, in.data)
        up  == UpsertToStagingResult(db.stg, PrepareDataframe(got.df, y), y,
                                     IF in.fault = "upsert" THEN "upsert" ELSE "none")
        unchanged(msg) == [ok |-> FALSE, err |-> msg, stg |-> db.stg, volumes |-> vols,
                           applied |-> {}]
    IN  IF ~got.ok THEN unchanged("Aucun export accessible")
        ELSE IF in.fault = "prepare" THEN unchanged("prepare")
        ELSE IF ~up.ok THEN unchanged(up.err)
        ELSE IF in.fault \in {"count", "log_volume"}
        THEN [ok |-> FALSE, err |-> in.fault, stg |-> up.table, volumes |-> vols,
              applied |-> up.applied]
        ELSE [ok |-> TRUE, err |-> "", stg |-> up.table,
              volumes |-> LogVolumeResult(vols, "pro_sante", "stg_pro_sante_raw", y,
                                          CountStaging(up.table, y), 1000, NullId, "Y"),
              applied |-> up.applied]

\* main() of dims_loader: populate_dimensions(YEAR), YEAR being the module's None
DimsMainResult(db, in) ==
    LET res == PopulateDimensionsResult(db, NoYear, in.fault)
    IN  [ok |-> res.ok, err |-> res.err, db |-> res.db]

\* main(year) of facts_loader: the argument, else the YEAR of the environment
FactsMainResult(db, vols, year, env_year, in) ==
    LET y   == IF year # NoYear THEN year ELSE env_year
        res == LoadFactsResult(db, vols, y, in.cast_first, in.fault)
    IN  [ok |-> res.ok, err |-> res.err, faits |-> res.faits, volumes |-> res.volumes]

----------------------------------------------------------------------------
(* Orchestrator: pipeline_runner *)

\* main_fn(year) raised TypeError: _call_module_main calls main_fn() again
FallsBack(res, in) == ~res.ok /\ res.err = in.fault /\ in.exc = "TypeError"

\* (mutant) the failure is never re-raised
AfterStepContinue(raised, next) == next

\* (mutant) the failure is re-raised whatever the policy
AfterStepAbort(raised, next) == IF raised THEN "aborted" ELSE next

\* where main() goes after a step: the failure is re-raised under --stop-on-fail
AfterStep(raised, next) == IF raised /\ args.stop_on_fail THEN "aborted" ELSE next

Status(raised) == IF raised THEN "KO" ELSE "OK"

StartRun(year, stop, ss, sd, sf) ==
    /\ pc = "idle"
    /\ pc' = "staging"
    /\ args' = [year |-> year, stop_on_fail |-> stop, skip_staging |-> ss,
                skip_dims |-> sd, skip_facts |-> sf]
    /\ calls' = [staging |-> 0, dimensions |-> 0, faits |-> 0, logged |-> Len(run_log)]
    /\ UNCHANGED <<stg, annees, professions, regions, genres, tranches_age, departements,
                   faits, volumes, run_log, last, pre, loaded>>

SkipStaging ==
    /\ pc = "staging" /\ args.skip_staging
    /\ pc' = "dimensions"
    /\ UNCHANGED <<stg, annees, professions, regions, genres, tranches_age, departements,
                   faits, volumes, run_log, args, calls, last, pre, loaded>>

\* _run_step("staging", staging_loader, ..)
RunStaging(in1, in2) ==
    /\ pc = "staging" /\ ~args.skip_staging
    /\ \E r1 \in {StagingMainResult(Snapshot, volumes, args.year, in1)} :
       \E r2 \in {IF FallsBack(r1, in1)
                  THEN StagingMainResult([Snapshot EXCEPT !.stg = r1.stg], r1.volumes,
                                         args.year, in2)
                  ELSE r1} :
          /\ stg' = r2.stg
          /\ volumes' = r2.volumes
          /\ loaded' = loaded \cup r1.applied \cup r2.applied
          /\ calls' = [calls EXCEPT !.staging = IF FallsBack(r1, in1) THEN 2 ELSE 1]
          /\ run_log' = LogRunResult(run_log, "staging", Status(~r2.ok), r2.err)
          /\ last' = Called("staging", args.year, r2.ok)
          /\ pc' = AfterStep(~r2.ok, "dimensions")
    /\ pre' = stg
    /\ UNCHANGED <<annees, professions, regions, genres, tranches_age, departements,
                   faits, args>>

SkipDims ==
    /\ pc = "dimensions" /\ args.skip_dims
    /\ pc' = "faits"
    /\ UNCHANGED <<stg, annees, professions, regions, genres, tranches_age, departements,
                   faits, volumes, run_log, args, calls, last, pre, loaded>>

\* _run_step("dimensions", dims_loader, ..): main(year) does not bind, main() runs
RunDims(in) ==
    /\ pc = "dimensions" /\ ~args.skip_dims
    /\ \E r \in {DimsMainResult(Snapshot, in)} :
          /\ annees' = r.db.annees
          /\ professions' = r.db.professions
          /\ regions' = r.db.regions
          /\ genres' = r.db.genres
          /\ tranches_age' = r.db.tranches_age
          /\ departements' = r.db.departements
          /\ run_log' = LogRunResult(run_log, "dimensions", Status(~r.ok), r.err)
          /\ last' = Called("dimensions", args.year, r.ok)
          /\ pc' = AfterStep(~r.ok, "faits")
    /\ calls' = [calls EXCEPT !.dimensions = 1]
    /\ pre' = stg
    /\ UNCHANGED <<stg, faits, volumes, args, loaded>>

SkipFacts ==
    /\ pc = "faits" /\ args.skip_facts
    /\ pc' = "done"
    /\ UNCHANGED <<stg, annees, professions, regions, genres, tranches_age, departements,
                   faits, volumes, run_log, args, calls, last, pre, loaded>>

\* _run_step("faits", facts_loader, ..)
RunFacts(in1, in2) ==
    /\ pc = "faits" /\ ~args.skip_facts
    /\ \E r1 \in {FactsMainResult(Snapshot, volumes, args.year, args.year, in1)} :
       \E r2 \in {IF FallsBack(r1, in1)
                  THEN FactsMainResult([Snapshot EXCEPT !.faits = r1.faits], r1.volumes,
                                       NoYear, args.year, in2)
                  ELSE r1} :
          /\ faits' = r2.faits
          /\ volumes' = r2.volumes
          /\ calls' = [calls EXCEPT !.faits = IF FallsBack(r1, in1) THEN 2 ELSE 1]
          /\ run_log' = LogRunResult(run_log, "faits", Status(~r2.ok), r2.err)
          /\ last' = Called("faits", args.year, r2.ok)
          /\ pc' = AfterStep(~r2.ok, "done")
    /\ pre' = stg
    /\ UNCHANGED <<stg, annees, professions, regions, genres, tranches_age, departements,
                   args, loaded>>

----------------------------------------------------------------------------
(* Initial state: an empty warehouse, no run in progress *)

NoArgs == [year |-> NoYear, stop_on_fail |-> FALSE, skip_staging |-> FALSE,
           skip_dims |-> FALSE, skip_facts |-> FALSE]

NoCalls == [staging |-> 0, dimensions |-> 0, faits |-> 0, logged |-> 0]

EmptyWarehouse ==
    /\ annees = {} /\ professions = {} /\ regions = {} /\ genres = {}
    /\ tranches_age = {} /\ departements = {} /\ faits = {}

Idle ==
    /\ volumes = {} /\ run_log = <<>> /\ pc = "idle" /\ args = NoArgs /\ calls = NoCalls
    /\ last = Called("none", NoYear, TRUE)

InitStaging ==
    /\ stg = {} /\ loaded = {}
    /\ EmptyWarehouse /\ Idle
    /\ pre = {}

NextStaging ==
    \/ \E df \in Batches(StgPool), y \in Years, f \in StgFaults : UpsertToStaging(df, y, f)
    \/ \E df \in Batches(StgPool) : UpsertDataframe(df)

SpecStaging == InitStaging /\ [][NextStaging]_vars

----------------------------------------------------------------------------
(* One run of the orchestrator, on the warehouse an earlier run has left *)

EmptyDb == [stg |-> {}, annees |-> {}, professions |-> {}, regions |-> {}, genres |-> {},
            tranches_age |-> {}, departements |-> {}, faits |-> {}]

\* every export answers / none does / only the csv exports do
AllAnswer == [c \in Combos |-> "ok"]

NoneAnswers == [c \in Combos |-> IF c = 3 THEN "timeout" ELSE "HTTP 404"]

CsvOnly == [c \in Combos |-> IF c \in {2, 4} THEN "ok" ELSE "HTTP 500"]

Plain(data) == StepInput(AllAnswer, data, "none", "Error", FALSE)

\* the state left by `--year 2021 --skip-dims --skip-facts` on the 2021 extract
After2021Staging ==
    LET st == StagingMainResult(EmptyDb, {}, 2021, Plain(<<rOcc21>>))
    IN  [db |-> [EmptyDb EXCEPT !.stg = st.stg], volumes |-> st.volumes,
         run_log |-> LogRunResult(<<>>, "staging", "OK", ""), loaded |-> st.applied]

\* the state left by `--year 2021` on the 2021 extract
After2021Run ==
    LET st == After2021Staging
        dm == DimsMainResult(st.db, Plain(<<>>))
        fc == FactsMainResult(dm.db, st.volumes, 2021, 2021, Plain(<<>>))
    IN  [db |-> [dm.db EXCEPT !.faits = fc.faits], volumes |-> fc.volumes,
         run_log |-> LogRunResult(LogRunResult(st.run_log, "dimensions", "OK", ""),
                                  "faits", "OK", ""),
         loaded |-> st.loaded]

NeverRun == [db |-> EmptyDb, volumes |-> {}, run_log |-> <<>>, loaded |-> {}]

Earlier == {NeverRun, After2021Staging, After2021Run}

Init ==
    \E e \in Earlier :
        /\ stg = e.db.stg /\ annees = e.db.annees /\ professions = e.db.professions
        /\ regions = e.db.regions /\ genres = e.db.genres
        /\ tranches_age = e.db.tranches_age /\ departements = e.db.departements
        /\ faits = e.db.faits /\ volumes = e.volumes /\ run_log = e.run_log
        /\ loaded = e.loaded /\ pre = e.db.stg
        /\ pc = "idle" /\ args = NoArgs
        /\ calls = [NoCalls EXCEPT !.logged = Len(e.run_log)]
        /\ last = Called("none", NoYear, TRUE)

\* what the source publishes: both years in one export, a re-publication with
\* an unknown department code, an export without its departement column
RunExtracts == {<<rOcc, rCorse, rOcc21>>, <<rOccBis, rZZ>>, <<rNoDep, rOcc>>}

Excs == {"Error", "TypeError"}

StagingInputs ==
    {StepInput(a, d, f, e, FALSE) :
        a \in {NoneAnswers, CsvOnly}, d \in RunExtracts,
        f \in {"none", "prepare", "upsert", "count", "log_volume"}, e \in Excs}

DimsInputs == {StepInput({}, <<>>, f, "Error", FALSE) : f \in DimFaults}

FactsInputs == {StepInput({}, <<>>, f, e, c) : f \in FactFaults, e \in Excs, c \in BOOLEAN}

\* the second call is made only when the first raised TypeError
Second(in1, inputs) == IF in1.exc = "TypeError" /\ in1.fault # "none" THEN inputs ELSE {in1}

Next ==
    \/ \E y \in Years, stop, ss, sd, sf \in BOOLEAN : StartRun(y, stop, ss, sd, sf)
    \/ SkipStaging
    \/ \E in1 \in StagingInputs : \E in2 \in Second(in1, StagingInputs) : RunStaging(in1, in2)
    \/ SkipDims
    \/ \E in \in DimsInputs : RunDims(in)
    \/ SkipFacts
    \/ \E in1 \in FactsInputs : \E in2 \in Second(in1, FactsInputs) : RunFacts(in1, in2)

Spec == Init /\ [][Next]_vars

\* Warehouse: extracts arrive in staging, the dimension and fact loaders are
\* called directly (python dims_loader.py / facts_loader.py), in any order
YearArgs == Years \cup {NoYear}

NextWarehouse ==
    \/ \E df \in WhBatches, y \in Years : UpsertToStaging(df, y, "none")
    \/ \E y \in YearArgs, f \in {"none", "DIM departement"} : PopulateDimensions(y, f)
    \/ \E y \in YearArgs, c \in BOOLEAN, f \in {"none", "FACTS upsert"} : LoadFacts(y, c, f)

SpecWarehouse == InitStaging /\ [][NextWarehouse]_vars

\* Recorder: log_volume called with and without its optional bounds
Entities == {"stg_pro_sante_raw", "table_faits_pro_v2"}

Counts == {10, 20}

Mins == {NullId, 1000}

Maxs == {NullId, 5000}

NextRecorder ==
    \E e \in Entities, d \in Years, v \in Counts, lo \in Mins, hi \in Maxs :
        LogVolume(e, d, v, lo, hi, "Y")

SpecRecorder == InitStaging /\ [][NextRecorder]_vars

\* Extractor: fetch_parquet_df against every pattern of answers of the source
NextExtract ==
    \E a \in [Combos -> Outcomes], d \in RunExtracts : FetchParquet(a, d)

SpecExtract == InitStaging /\ [][NextExtract]_vars

----------------------------------------------------------------------------
(* Dimension and fact properties *)

\* the documented filter: region code <> '99', department code <> '999',
\* sex label in {'hommes','femmes'}, age-band code <> 'tout_age'
Passes(r) ==
    /\ r.region # "99" /\ r.departement # "999"
    /\ r.libelle_sexe \in {"hommes", "femmes"} /\ r.classe_age # "tout_age"

\* a department code that is neither numeric nor one of the two reserved codes
Unmappable(dep) == ~AllDigits(dep) /\ dep \notin {"2A", "2B"}

\* C3: for every department code held by a filtered staging row, the Fact
\* Resolver's normalization gives what the Dimension Conformer's gives (the
\* same id, or no id and no error).
C3_SameNormalization ==
    \A r \in DimsFiltered(stg, NoYear) : FactDepNorm(r.departement) = DimDepId(r.departement)

\* the staging rows of year y that resolve against all six dimensions of db
Resolvable(db, y) ==
    {r \in db.stg : /\ Passes(r) /\ (y # NoYear => r.annee = y)
                    /\ ~Unmappable(r.departement)
                    /\ JoinsOtherDims(db, r)
                    /\ \E d \in db.departements : d.id_departement = DimDepId(r.departement)}

\* C4: with an unmappable department code in filtered staging, the Dimension
\* Conformer and then the Fact Resolver both complete without error, the row
\* gives no Department row and no fact row, every other resolvable row is in
\* the fact table, and staging keeps the row.  (Stated for the plan that
\* evaluates the cast as late as possible.)
C4_UnmappableSkipped ==
    \A y \in YearArgs :
        LET d == PopulateDimensionsResult(Snapshot, y, "none")
            f == LoadFactsResult(d.db, volumes, y, FALSE, "none")
        IN  (d.ok /\ \E r \in DimsFiltered(stg, y) : Unmappable(r.departement)) =>
               /\ f.ok
               /\ \A r \in Resolvable(d.db, y) :
                     \E x \in f.faits : x.effectif = r.effectif /\ x.densite = r.densite
               /\ \A x \in d.db.departements : x.id_departement # NullId
               /\ d.db.stg = stg

\* C5: 2A maps to 101 and 2B to 102, no numeric code of a filtered staging row
\* maps to either, and no Department row comes from an unmappable code.
C5_SentinelsDistinct ==
    /\ DimDepId("2A") = 101 /\ DimDepId("2B") = 102
    /\ \A r \in DimsFiltered(stg, NoYear) :
          AllDigits(r.departement) => DimDepId(r.departement) \notin {101, 102}
    /\ \A d \in departements :
          \E r \in stg : ~Unmappable(r.departement) /\ d.id_departement = DimDepId(r.departement)

\* C6: every fact row's six references resolve to a row of the corresponding
\* dimension table.
C6_FactsResolve ==
    \A f \in faits :
        /\ \E a \in annees : a.id_annee = f.id_annee
        /\ \E p \in professions : p.id_profession = f.id_profession
        /\ \E g \in regions : g.id_region = f.id_region
        /\ \E d \in departements : d.id_departement = f.id_departement
        /\ \E t \in tranches_age : t.id_tranche = f.id_tranche
        /\ \E x \in genres : x.id_genre = f.id_genre

\* facts of two years, the last call a successful load_facts
C6_Witness ==
    /\ last.op = "load_facts" /\ last.ok
    /\ Cardinality(faits) >= 3
    /\ Cardinality({f.id_annee : f \in faits}) = 2

\* C8: no two rows of a dimension share its natural key.
C8_DimensionKeysUnique ==
    /\ \A a, b \in annees : a.annee = b.annee => a = b
    /\ \A a, b \in professions : a.profession = b.profession => a = b
    /\ \A a, b \in regions : a.libelle_region = b.libelle_region => a = b
    /\ \A a, b \in genres : a.libelle_sexe = b.libelle_sexe => a = b
    /\ \A a, b \in tranches_age : a.classe_age = b.classe_age => a = b
    /\ \A a, b \in departements : a.id_departement = b.id_departement => a = b

\* a second conformance run met the rows of the first and overwrote the
\* department's name and the age band's label
C8_Witness ==
    /\ last.op = "populate_dimensions" /\ last.ok
    /\ Cardinality(annees) = 2 /\ Cardinality(regions) >= 3
    /\ \E d \in departements : d.id_departement = 31 /\ d.nom_departement = "Haute Garonne"
    /\ \E t \in tranches_age : t.libelle_classe_age = "30 a 39 ans"
    /\ \E r \in stg : r.libelle_departement = "Haute-Garonne" /\ Passes(r)

\* the dimension and fact tables of db
Conformed(db) == [db EXCEPT !.stg = {}]

\* C9: the Dimension Conformer and the Fact Resolver select the same staging
\* rows, those passing the filter, and a row failing it changes no dimension
\* row and no fact row: each loader gives the tables it would give without
\* the failing rows.
C9_FilterConsistent ==
    \A y \in YearArgs :
        LET kept == [Snapshot EXCEPT !.stg = {r \in stg : Passes(r)}]
            d    == PopulateDimensionsResult(Snapshot, y, "none")
            dk   == PopulateDimensionsResult(kept, y, "none")
        IN  /\ DimsFiltered(stg, y) = FactsFiltered(stg, y)
            /\ DimsFiltered(stg, y) = {r \in stg : Passes(r) /\ (y # NoYear => r.annee = y)}
            /\ d.ok = dk.ok /\ Conformed(d.db) = Conformed(dk.db)
            /\ \A c \in BOOLEAN :
                  LET f  == LoadFactsResult(Snapshot, volumes, y, c, "none")
                      fk == LoadFactsResult(kept, volumes, y, c, "none")
                  IN  f = fk

\* both loaders have run over a staging table that holds the four kinds of
\* aggregate row, and facts were loaded
C9_Witness ==
    /\ last.op = "load_facts" /\ last.ok /\ faits # {} /\ departements # {}
    /\ {rReg99, rDep999, rTousSexes, rToutAge} \subseteq stg

\* C17: populate_dimensions executes its statements in the order Year,
\* Profession, Region, Sex, AgeBand, Department, up to the first that raises;
\* when one raises, whichever it is, none of the six dimension tables (and
\* nothing else) is changed; when all succeed every department written
\* references a region the same run has conformed.
C17_DimsAllOrNothing ==
    \A y \in YearArgs, f \in DimFaults :
        LET res == PopulateDimensionsResult(Snapshot, y, f)
        IN  /\ \E n \in 1..Len(DimStatements) : res.ran = SubSeq(DimStatements, 1, n)
            /\ DimStatements = <<"DIM annee", "DIM profession", "DIM region", "DIM genre",
                                 "DIM tranche_age", "DIM departement">>
            /\ res.ok <=> (res.err = "")
            /\ res.ok => res.ran = DimStatements
            /\ ~res.ok => res.db = Snapshot
            /\ (f # "none" /\ f \notin {"DIM departement"}) =>
                  ~res.ok /\ res.ran[Len(res.ran)] = f
            /\ res.ok =>
                  \A r \in DimsFiltered(stg, y) :
                      ~Unmappable(r.departement) =>
                          \E d \in res.db.departements, g \in res.db.regions :
                              /\ d.id_departement = DimDepId(r.departement)
                              /\ d.id_region = g.id_region
                              /\ g.libelle_region = r.libelle_region

\* a conformance run that raised over staging rows none of whose dimension
\* values had been conformed yet: the six tables are still empty
C17_Witness ==
    /\ last.op = "populate_dimensions" /\ ~last.ok
    /\ DimsFiltered(stg, last.year) # {}
    /\ annees = {} /\ professions = {} /\ regions = {} /\ genres = {}
    /\ tranches_age = {} /\ departements = {}

\* the fact rows of tab whose six references resolve to the values of staging row r
FactsOf(db, tab, r) ==
    {f \in tab :
        /\ \E a \in db.annees : a.id_annee = f.id_annee /\ a.annee = r.annee
        /\ \E p \in db.professions :
              p.id_profession = f.id_profession /\ p.profession = r.profession_sante
        /\ \E g \in db.regions :
              g.id_region = f.id_region /\ g.libelle_region = r.libelle_region
        /\ f.id_departement = DimDepId(r.departement)
        /\ \E t \in db.tranches_age : t.id_tranche = f.id_tranche /\ t.classe_age = r.classe_age
        /\ \E x \in db.genres : x.id_genre = f.id_genre /\ x.libelle_sexe = r.libelle_sexe}

\* C15: when populate_dimensions(Y) and then load_facts(Y) both succeed, every
\* staging row of year Y that passes the filter and has a numeric or reserved
\* department code has exactly one fact row with its six references, that
\* row carries the staging row's headcount and density, and the Department
\* row of its derived id references the Region row of its region label.
C15_FactsComplete ==
    \A y \in Years, c \in BOOLEAN :
        LET d == PopulateDimensionsResult(Snapshot, y, "none")
            f == LoadFactsResult(d.db, volumes, y, c, "none")
        IN  (d.ok /\ f.ok) =>
               \A r \in {x \in stg : x.annee = y /\ Passes(x) /\ ~Unmappable(x.departement)} :
                   /\ Cardinality(FactsOf(d.db, f.faits, r)) = 1
                   /\ \A x \in FactsOf(d.db, f.faits, r) :
                         x.effectif = r.effectif /\ x.densite = r.densite
                   /\ \E dep \in d.db.departements, g \in d.db.regions :
                         /\ dep.id_departement = DimDepId(r.departement)
                         /\ dep.id_region = g.id_region
                         /\ g.libelle_region = r.libelle_region

\* the 2022 rows were conformed and resolved after a re-publication: the fact
\* of the Occitanie row carries the new headcount, the Corsican row has its
\* fact on department 101, which references the region Corse
C15_Witness ==
    /\ last.op = "load_facts" /\ last.ok /\ last.year = 2022
    /\ {rCorse, r102} \subseteq stg
    /\ \E r \in stg : Key(r) = Key(rOcc) /\ r.effectif = 130
                      /\ \E f \in FactsOf(Snapshot, faits, r) : f.effectif = 130
    /\ \E f \in FactsOf(Snapshot, faits, rCorse) : f.id_departement = 101
    /\ \E dep \in departements, g \in regions :
          dep.id_departement = 101 /\ dep.id_region = g.id_region /\ g.libelle_region = "Corse"

\* C21: every fact row's region reference is the region reference of the
\* Department row the fact references.
C21_RegionCoherent ==
    \A f \in faits :
        \A d \in departements :
            d.id_departement = f.id_departement => d.id_region = f.id_region

----------------------------------------------------------------------------
(* Orchestrator properties *)

\* C7: a run for year Y works on year Y only: the staging step changes only
\* staging rows of Y, the dimensions step gives the dimension tables that
\* populate_dimensions(Y) gives, the facts step adds or changes only facts of Y.
C7_YearThreaded ==
    /\ (pc = "staging" /\ ~args.skip_staging) =>
          \A in \in StagingInputs :
              LET r == StagingMainResult(Snapshot, volumes, args.year, in)
              IN  {x \in r.stg : x.annee # args.year} = {x \in stg : x.annee # args.year}
    /\ (pc = "dimensions" /\ ~args.skip_dims) =>
          LET run  == DimsMainResult(Snapshot, Plain(<<>>))
              only == PopulateDimensionsResult(Snapshot, args.year, "none")
          IN  run.ok = only.ok /\ Conformed(run.db) = Conformed(only.db)
    /\ (pc = "faits" /\ ~args.skip_facts) =>
          \A in \in FactsInputs :
              LET r == FactsMainResult(Snapshot, volumes, args.year, args.year, in)
              IN  \A f \in r.faits \ faits :
                      \E a \in annees : a.id_annee = f.id_annee /\ a.annee = args.year

Steps == {"staging", "dimensions", "faits"}

Skipped(step) ==
    CASE step = "staging" -> args.skip_staging
      [] step = "dimensions" -> args.skip_dims
      [] step = "faits" -> args.skip_facts

\* main() has gone past the step, or stopped in it
Past(step) ==
    CASE step = "staging" -> pc \in {"dimensions", "faits", "done"}
      [] step = "dimensions" -> pc \in {"faits", "done"}
      [] step = "faits" -> pc = "done"

\* the run records written since the run started
RunRecords == SubSeq(run_log, calls.logged + 1, Len(run_log))

RecordsOf(step) == {i \in 1..Len(RunRecords) : RunRecords[i].component = step}

\* C10: the run has written exactly one run record for each step it has
\* executed and none for a step it skipped or has not reached; the record of
\* the step just executed says OK with no message if the step returned, KO
\* with the error message if it raised, with or without --stop-on-fail.
C10_OneRecordPerStep ==
    /\ \A step \in Steps :
          /\ calls[step] = 0 => RecordsOf(step) = {}
          /\ calls[step] >= 1 => Cardinality(RecordsOf(step)) = 1
          /\ Skipped(step) => calls[step] = 0
          /\ (Past(step) /\ ~Skipped(step)) => calls[step] >= 1
    /\ last.op \in Steps =>
          /\ Len(RunRecords) >= 1
          /\ LET rec == RunRecords[Len(RunRecords)]
              IN  /\ rec.component = last.op
                  /\ rec.status = (IF last.ok THEN "OK" ELSE "KO")
                  /\ (rec.message = "") = last.ok
          /\ pc = "aborted" => ~last.ok /\ args.stop_on_fail
          /\ (~last.ok /\ args.stop_on_fail) => pc = "aborted"

\* a run without --stop-on-fail that skipped dimensions, whose staging step
\* raised and whose facts step returned
C10_Witness ==
    /\ pc = "done" /\ args.skip_dims /\ ~args.stop_on_fail
    /\ Len(RunRecords) = 2
    /\ RunRecords[1].component = "staging" /\ RunRecords[1].status = "KO"
    /\ RunRecords[1].message # ""
    /\ RunRecords[2].component = "faits" /\ RunRecords[2].status = "OK"

\* a run with --stop-on-fail whose dimensions step raised after staging returned
C10_WitnessStop ==
    /\ pc = "aborted" /\ Len(RunRecords) = 2
    /\ RunRecords[1].status = "OK" /\ RunRecords[2].status = "KO"

\* the steps main() would run after the given one
Downstream(step) ==
    CASE step = "staging" -> {"dimensions", "faits"}
      [] step = "dimensions" -> {"faits"}
      [] step = "faits" -> {}

\* C11: under --stop-on-fail a step that raised ends the run right after its
\* run record: the run is aborted exactly then, the last record written is
\* that step's KO record, no downstream step has been invoked and none has a
\* run record.
C11_StopOnFail ==
    /\ (args.stop_on_fail /\ last.op \in Steps /\ ~last.ok) => pc = "aborted"
    /\ pc = "aborted" =>
          /\ args.stop_on_fail /\ last.op \in Steps /\ ~last.ok
          /\ Len(RunRecords) >= 1
          /\ RunRecords[Len(RunRecords)].component = last.op
          /\ RunRecords[Len(RunRecords)].status = "KO"
          /\ \A step \in Downstream(last.op) :
                calls[step] = 0 /\ RecordsOf(step) = {}

\* a run with --stop-on-fail and no step skipped, stopped by its staging step
C11_Witness ==
    /\ pc = "aborted" /\ last.op = "staging"
    /\ ~args.skip_dims /\ ~args.skip_facts
    /\ Len(RunRecords) = 1 /\ RunRecords[1].status = "KO"
    /\ calls.dimensions = 0 /\ calls.faits = 0

Rank(step) ==
    CASE step = "staging" -> 1 [] step = "dimensions" -> 2 [] step = "faits" -> 3

\* C12: without --stop-on-fail a step that raised is recorded KO and the run
\* goes on: it is never aborted, every non-skipped step the run has passed has
\* been invoked and recorded, in the order staging, dimensions, faits, and a
\* step the run has not reached yet has not been invoked.
C12_FailureIsolated ==
    /\ ~args.stop_on_fail => pc # "aborted"
    /\ ~args.stop_on_fail =>
          \A step \in Steps :
              (Past(step) /\ ~Skipped(step)) =>
                  calls[step] >= 1 /\ Cardinality(RecordsOf(step)) = 1
    /\ \A i, j \in 1..Len(RunRecords) :
          i < j => Rank(RunRecords[i].component) < Rank(RunRecords[j].component)
    /\ \A step \in Steps :
          pc = step => \A later \in {step} \cup Downstream(step) :
                           calls[later] = 0 /\ RecordsOf(later) = {}

\* a run without --stop-on-fail whose staging and dimensions steps raised and
\* whose facts step was still invoked and returned
C12_Witness ==
    /\ pc = "done" /\ ~args.stop_on_fail /\ Len(RunRecords) = 3
    /\ RunRecords[1].component = "staging" /\ RunRecords[1].status = "KO"
    /\ RunRecords[2].component = "dimensions" /\ RunRecords[2].status = "KO"
    /\ RunRecords[3].component = "faits" /\ RunRecords[3].status = "OK"

\* C19: in one run the main() of each non-skipped step is invoked exactly
\* once, also when it raises: never a second time without the year.
C19_SingleInvocation ==
    \A step \in Steps :
        /\ calls[step] <= 1
        /\ (Past(step) /\ ~Skipped(step)) => calls[step] = 1

\* C20: a step whose run record says KO has left the tables it writes as
\* they were before it started: staging for the staging step, the six
\* dimensions for the dimensions step, the fact table for the facts step,
\* wherever in the step the failure occurs.
C20_FailedStepIsolated ==
    /\ (last.op = "staging" /\ ~last.ok) => stg = pre
    /\ (pc = "dimensions" /\ ~args.skip_dims) =>
          \A in \in DimsInputs :
              LET r == DimsMainResult(Snapshot, in)
              IN  ~r.ok => r.db = Snapshot
    /\ (pc = "faits" /\ ~args.skip_facts) =>
          \A in \in FactsInputs :
              LET r == FactsMainResult(Snapshot, volumes, args.year, args.year, in)
              IN  ~r.ok => r.faits = faits

----------------------------------------------------------------------------
(* Extractor properties *)

\* C18: fetch_parquet_df tries primary/parquet, primary/csv, legacy/parquet,
\* legacy/csv in that order, returns what the first answering combination
\* gives and tries none after it, and raises only when all four failed, with
\* the error of each of the four attempts in its message.
C18_ExtractorFailover ==
    /\ \A a \in [Combos -> Outcomes], d \in RunExtracts :
          LET got   == FetchParquetDf(a, d)
              hits  == {c \in Combos : a[c] = "ok"}
          IN  /\ got.ok <=> hits # {}
              /\ \E n \in 1..4 : got.tried = SubSeq(<<1, 2, 3, 4>>, 1, n)
              /\ got.ok =>
                    /\ got.from \in hits /\ \A c \in hits : got.from <= c
                    /\ got.tried[Len(got.tried)] = got.from
                    /\ got.df = d
              /\ ~got.ok =>
                    /\ got.tried = <<1, 2, 3, 4>>
                    /\ Len(got.errors) = 4
                    /\ \A c \in Combos :
                          got.errors[c] = [combo |-> ComboName(c), error |-> a[c]]
              /\ \A i \in 1..Len(got.errors) : got.errors[i].error = a[got.tried[i]]
    /\ last.op = "fetch_parquet_df" =>
          /\ last.ok => Len(last.errors) = Len(last.tried) - 1
          /\ ~last.ok => Len(last.errors) = 4 /\ last.df = <<>>

\* the two parquet exports and the primary csv failed, the legacy csv
\* answered: four attempts, three errors kept, the legacy csv's rows returned
C18_Witness ==
    /\ last.op = "fetch_parquet_df" /\ last.ok /\ last.from = 4
    /\ last.tried = <<1, 2, 3, 4>> /\ Len(last.errors) = 3
    /\ last.errors[3].combo = "PARQUET legacy" /\ last.df # <<>>

\* all four attempts failed, each with its own error
C18_WitnessAllFail ==
    /\ last.op = "fetch_parquet_df" /\ ~last.ok
    /\ last.errors[1].error = "HTTP 404" /\ last.errors[2].error = "HTTP 500"
    /\ last.errors[3].error = "timeout" /\ last.errors[4].error = "HTTP 404"

----------------------------------------------------------------------------
(* Recorder properties *)

\* the stored row of the key the last log_volume call was made for
StoredFor(vols, call) ==
    {v \in vols : VolKey(v) = <<"pro_sante", call.entity, call.year, call.agg_window>>}

\* the bound a call leaves: the one it gives, else the one stored, else none
BoundAfter(given, old, stored(_)) ==
    IF given # NullId THEN given
    ELSE IF old = {} THEN NullId
    ELSE stored(CHOOSE o \in old : TRUE)

\* C14: every log_volume call leaves exactly one row for its key, whose
\* observed count is the call's, and whose expected_min / expected_max is the
\* call's when it gives one and the stored one when it omits it; the rows of
\* the other keys are unchanged.  By induction each stored bound is that of
\* the most recent call that supplied it.
C14_VolumeBounds ==
    [][ last'.op = "log_volume" =>
          LET old == StoredFor(volumes, last')
              new == StoredFor(volumes', last')
          IN  /\ Cardinality(new) = 1
              /\ \A v \in new :
                    /\ v.volume = last'.volume
                    /\ v.expected_min =
                          BoundAfter(last'.emin, old, LAMBDA o : o.expected_min)
                    /\ v.expected_max =
                          BoundAfter(last'.emax, old, LAMBDA o : o.expected_max)
              /\ volumes' \ new = volumes \ old
              /\ \A a, b \in volumes' : VolKey(a) = VolKey(b) => a = b ]_vars

\* a call that omitted both bounds on a key stored with expected_min = 1000:
\* the count is the call's, the bound stays
C14_Witness ==
    /\ last.op = "log_volume" /\ last.emin = NullId /\ last.emax = NullId
    /\ last.volume = 20
    /\ \E v \in StoredFor(volumes, last) :
          v.expected_min = 1000 /\ v.expected_max = 5000 /\ v.volume = 20
    /\ Cardinality(volumes) >= 2

----------------------------------------------------------------------------
(* Staging Store properties *)

\* C1: in every reachable staging table, for every batch and year, applying
\* upsert_to_staging a second time with the same input leaves exactly the rows
\* (and the outcome) of applying it once.
C1_UpsertIdempotent ==
    \A df \in Batches(StgPool), y \in Years :
        LET once  == UpsertToStagingResult(stg, df, y, "none")
            twice == UpsertToStagingResult(once.table, df, y, "none")
        IN  /\ twice.table = once.table
            /\ twice.ok = once.ok
            /\ Cardinality(twice.table) = Cardinality(once.table)

\* a successful upsert for a year already held in staging that left every row as it was
C1_Witness ==
    /\ last.op = "upsert_to_staging" /\ last.ok
    /\ \E r \in pre : r.annee = last.year /\ r.effectif = 130
    /\ stg = pre
    /\ UpsertToStagingResult(pre, <<rOccBis>>, last.year, "none").table = stg

\* C13: an upsert_to_staging call that fails, at the temporary table, at the
\* bulk load or at the upsert (a fault or a batch that cannot be upserted),
\* leaves the staging table as it was; a call that succeeds applies every
\* selected row of the batch.
C13_StagingAtomic ==
    /\ (last.op = "upsert_to_staging" /\ ~last.ok) => stg = pre
    /\ \A df \in Batches(StgPool), y \in Years, f \in StgFaults :
          LET res == UpsertToStagingResult(stg, df, y, f)
          IN  /\ ~res.ok => (res.table = stg /\ res.applied = {})
              /\ res.ok => \A i \in SelectedIdx(df, y) : Key(df[i]) \in KeysOf(res.table)

\* a failed call on a staging table that already holds rows
C13_Witness ==
    /\ last.op = "upsert_to_staging" /\ ~last.ok
    /\ stg # {} /\ stg = pre

\* the columns an upsert may never change on an existing row
Kept(r) == [r EXCEPT !.effectif = 0, !.densite = 0]

\* C16: upsert_to_staging for year Y leaves the rows of the other years as
\* they were and inserts no batch row of another year; a row whose key exists
\* keeps its labels and its three vision attributes and takes the headcount
\* and the density of the batch row.
C16_UpsertFrame ==
    /\ last.op = "upsert_to_staging" =>
          {r \in stg : r.annee # last.year} = {r \in pre : r.annee # last.year}
    /\ \A df \in Batches(StgPool), y \in Years :
          LET res == UpsertToStagingResult(stg, df, y, "none")
          IN  /\ {r \in res.table : r.annee # y} = {r \in stg : r.annee # y}
              /\ \A r \in stg : \E n \in res.table : Key(n) = Key(r) /\ Kept(n) = Kept(r)
              /\ res.ok =>
                    \A i \in SelectedIdx(df, y) :
                        \E n \in res.table : /\ Key(n) = Key(df[i])
                                             /\ n.effectif = df[i].effectif
                                             /\ n.densite = df[i].densite

\* the 2022 row was re-published with other labels and figures while a 2021
\* row was in staging: the stored row has the new figures and its old labels
C16_Witness ==
    /\ last.op = "upsert_to_staging" /\ last.ok /\ last.year = 2022
    /\ {rOcc, rOcc21} \subseteq pre /\ rOcc21 \in stg
    /\ \E r \in stg : /\ Key(r) = Key(rOcc) /\ r.effectif = 130 /\ r.densite = 6
                      /\ r.libelle_departement = "Haute-Garonne"
                      /\ r.libelle_classe_age = "30-39 ans"
                      /\ r.vision_generale_all = "v1"

\* C2: staging holds at most one row per natural key, and exactly one row for
\* each natural key committed so far.
C2_OneRowPerKey ==
    /\ \A r1, r2 \in stg : Key(r1) = Key(r2) => r1 = r2
    /\ KeysOf(stg) = loaded
    /\ Cardinality(stg) = Cardinality(loaded)

\* a batch of two rows with two distinct keys loaded into the empty table
C2_Witness ==
    /\ last.op = "upsert_to_staging" /\ last.ok
    /\ pre = {} /\ Cardinality(stg) = 2 /\ Cardinality(loaded) = 2

====
